---- MODULE Spec2Model ----
(***************************************************************************)
(* A model of instructlab.schema.taxonomy: the Taxonomy entry (diagnostic  *)
(* sink) and TaxonomyParser.parse with the lint adapter, the schema cache  *)
(* and the schema validation loop.                                         *)
(*                                                                         *)
(* Python values are tagged records [t |-> <type>, v |-> <payload>].       *)
(* Strings that the code only passes along are TLA+ strings; strings the   *)
(* code converts or slices are sequences of one-character strings.         *)
(***************************************************************************)
EXTENDS Integers, Sequences, FiniteSets, TLC

VARIABLES
    parser,     \* the TaxonomyParser instance: its attributes
    env,        \* os.environ: the CI markers that are set
    pc,         \* where the current parse call is
    file,       \* the argument of parse and what the file system says of it
    parsed,     \* local `parsed` of parse: the result of yaml.safe_load
    taxonomy,   \* the Taxonomy entry of the current parse call
    out,        \* the diagnostics emitted by the last step, in order
    lines,      \* local `lines` of _yamllint: the lint output of the last run
    violation,  \* the validation error the schema loop handled last, with what yq
                \* did (yq), what it printed (text) and the line taken from it
    calls,      \* the collaborators the current parse call has invoked, in order
    exc,        \* the exception that left parse and its cause (NoExc otherwise)
    parses,     \* number of parse calls started on this parser
    cache,      \* the lru_cache of _load_schema: entries [key, obj], least recent first
    nextObj,    \* identity of the next Resource object created
    ret,        \* what the last _load_schema call did: [key, obj, read]
    firstLoad,  \* history: <<key, obj>> of the first successful load of each key
    world,      \* the run's surroundings: which files, tool outputs and callers it has
    versions,   \* the numbers n of the v<n> directories under the schema base
    ctor,       \* the arguments TaxonomyParser was constructed with
    threads,    \* the threads calling _load_schema at once: where each is, and its result
    loads       \* history: how many times the body of _load_schema ran, per key

vars == <<parser, env, pc, file, parsed, taxonomy, out, lines, violation, calls,
          exc, parses, cache, nextObj, ret, firstLoad, world,
          versions, ctor, threads, loads>>

----------------------------------------------------------------------------
(* Bounds of the model *)

MaxParses == 2          \* parse calls per behaviour
MaxLintLines == 2       \* lines of lint output per run
MaxViolations == 2      \* schema violations per document
MaxSeqLen == 2          \* items of a top-level YAML sequence
NumSchemaVersions == 2  \* v1 .. vN directories under the schema base
CacheParsers == 22      \* parser instances sharing the cache in SpecCache
NumThreads == 2         \* threads calling parse on one parser in SpecThreads
MaxThreadCalls == 2     \* _load_schema calls per thread in SpecThreads

(* Program constants *)

LruMaxSize == 128       \* functools.lru_cache default maxsize (bare @lru_cache)
MessageTail == 200      \* validation_error.message[-200:]

DEFAULT_TAXONOMY_FOLDERS == {"compositional_skills", "knowledge"}

SchemaFiles == {"compositional_skills.json", "knowledge.json", "version.json"}

----------------------------------------------------------------------------
(* Python values *)

PyInt(n) == [t |-> "int", v |-> n]
PyStr(s) == [t |-> "str", v |-> s]
PyBool(b) == [t |-> "bool", v |-> b]
PyFloat(tenths) == [t |-> "float", v |-> tenths]   \* the value is tenths / 10
PyInf == [t |-> "inf", v |-> 0]
PyNan == [t |-> "nan", v |-> 0]
PyNone == [t |-> "none", v |-> 0]
PyList(n) == [t |-> "list", v |-> n]               \* a sequence of n items
Absent == [t |-> "absent", v |-> 0]                \* no such key
\* a mapping: its keys and the value under "version"
PyMap(keys, version) == [t |-> "map", v |-> [keys |-> keys, version |-> version]]

Digits == <<"0", "1", "2", "3", "4", "5", "6", "7", "8", "9">>

IsDigit(c) == \E i \in 1..10 : Digits[i] = c

DigitVal(c) == (CHOOSE i \in 1..10 : Digits[i] = c) - 1

RECURSIVE Strip(_)
\* str.strip(): leading and trailing whitespace removed
Strip(s) ==
    IF s = <<>> THEN s
    ELSE IF Head(s) \in {" ", "\n"} THEN Strip(Tail(s))
    ELSE IF s[Len(s)] \in {" ", "\n"} THEN Strip(SubSeq(s, 1, Len(s) - 1))
    ELSE s

RECURSIVE DigitsValue(_)
DigitsValue(s) ==
    IF s = <<>> THEN 0
    ELSE 10 * DigitsValue(SubSeq(s, 1, Len(s) - 1)) + DigitVal(s[Len(s)])

\* int(<str>): whitespace stripped, an optional sign, then decimal digits
IntOfStr(s) ==
    LET b == Strip(s)
        signed == b # <<>> /\ Head(b) \in {"+", "-"}
        d == IF signed THEN Tail(b) ELSE b
    IN  IF d # <<>> /\ \A i \in 1..Len(d) : IsDigit(d[i])
        THEN [exc |-> "none",
              v |-> IF signed /\ Head(b) = "-" THEN 0 - DigitsValue(d) ELSE DigitsValue(d)]
        ELSE [exc |-> "ValueError", v |-> 0]

\* int(<float>): truncation toward zero
IntOfFloat(tenths) ==
    IF tenths >= 0 THEN tenths \div 10 ELSE 0 - ((0 - tenths) \div 10)

\* int(x) for a decoded YAML value x: the result, or the exception it raises
IntOf(x) ==
    CASE x.t = "int" -> [exc |-> "none", v |-> x.v]
      [] x.t = "bool" -> [exc |-> "none", v |-> IF x.v THEN 1 ELSE 0]
      [] x.t = "str" -> IntOfStr(x.v)
      [] x.t = "float" -> [exc |-> "none", v |-> IntOfFloat(x.v)]
      [] x.t = "inf" -> [exc |-> "OverflowError", v |-> 0]
      [] x.t = "nan" -> [exc |-> "ValueError", v |-> 0]
      [] OTHER -> [exc |-> "TypeError", v |-> 0]

RECURSIVE IntStr(_)
\* str(n) for an int n >= 0
IntStr(n) ==
    IF n < 10 THEN <<Digits[n + 1]>>
    ELSE IntStr(n \div 10) \o <<Digits[(n % 10) + 1]>>

\* str(x), as an f-string or %s formats it, for an int or a str
Str(x) == IF x.t = "int" THEN IntStr(x.v) ELSE x.v

\* isinstance(x, int): bool is a subclass of int
IsInstanceInt(x) == x.t \in {"int", "bool"}

\* the number an int (or bool) instance compares equal to
IntValue(x) == IF x.t = "bool" THEN (IF x.v THEN 1 ELSE 0) ELSE x.v

\* `not x`: the truth test of a decoded top-level value
Falsy(x) ==
    CASE x.t = "none" -> TRUE
      [] x.t = "list" -> x.v = 0
      [] x.t = "map" -> x.v.keys = {}
      [] x.t = "str" -> x.v = <<>>
      [] x.t = "int" -> x.v = 0
      [] x.t = "bool" -> ~x.v
      [] x.t = "float" -> x.v = 0
      [] OTHER -> FALSE

\* isinstance(x, Mapping)
IsMapping(x) == x.t = "map"

\* parsed.get("version", 1)
GetVersion(m) == IF "version" \in m.v.keys THEN m.v.version ELSE PyInt(1)

----------------------------------------------------------------------------
(* Taxonomy: the entry and its diagnostic sink *)

CIMarkers == {"GITHUB_ACTIONS", "GITHUB_WORKFLOW"}

MessageFormats == {"AUTO", "STANDARD", "GITHUB", "LOGGING"}

\* mutant of ResolveFormat: one marker is enough
ResolveFormat_Either(fmt, e) ==
    IF fmt = "AUTO"
    THEN IF "GITHUB_ACTIONS" \in e \/ "GITHUB_WORKFLOW" \in e THEN "GITHUB" ELSE "STANDARD"
    ELSE fmt

\* Taxonomy.__init__: AUTO is resolved against os.environ when the entry is made
ResolveFormat(fmt, e) ==
    IF fmt = "AUTO"
    THEN IF "GITHUB_ACTIONS" \in e /\ "GITHUB_WORKFLOW" \in e THEN "GITHUB" ELSE "STANDARD"
    ELSE fmt

NewTaxonomy(path, fmt, e) ==
    [path |-> path, message_format |-> ResolveFormat(fmt, e),
     errors |-> 0, warnings |-> 0, parsed |-> PyMap({}, Absent), version |-> 0]

NoTaxonomy ==
    [path |-> <<>>, message_format |-> "NONE",
     errors |-> 0, warnings |-> 0, parsed |-> PyMap({}, Absent), version |-> 0]

\* one emitted diagnostic: the branch of `match self.message_format` that printed it,
\* and the arguments of the call
Diag(sev, tx, message, args, line, col, yaml_path) ==
    [sev |-> sev, fmt |-> tx.message_format, message |-> message, args |-> args,
     line |-> line, col |-> col, yaml_path |-> yaml_path]

\* Taxonomy.error: the entry after the call
Error(tx) == [tx EXCEPT !.errors = @ + 1]

\* mutant of Warning: the warning is counted as an error
Warning_AsError(tx) == [tx EXCEPT !.errors = @ + 1]

\* Taxonomy.warning: the entry after the call
Warning(tx) == [tx EXCEPT !.warnings = @ + 1]

DefaultLine == PyInt(1)
DefaultCol == PyInt(1)

MsgNotAFile == <<"The file \"", "%s", "\" does not exist or is not a file">>
MsgBadName == <<"Taxonomy file must be named \"qna.yaml\"; \"", "%s", "\" is not a valid name">>
MsgEmpty == <<"The file is empty">>
MsgNotObject == <<"The file is not valid. The top-level element is not an object with key-value pairs.">>
MsgMinItems == <<"Value must have at least ", "%s", " items">>
MsgNoSchema == <<"Cannot load schema file ", "%s", ". ", "%s">>

RECURSIVE Interpolate(_, _)
\* message % message_args: each %s takes the next argument
Interpolate(message, args) ==
    IF message = <<>> THEN <<>>
    ELSE IF Head(message) = "%s" /\ args # <<>>
         THEN <<Head(args)>> \o Interpolate(Tail(message), Tail(args))
         ELSE <<Head(message)>> \o Interpolate(Tail(message), args)

\* message % args as Python computes it: %s takes the next argument, %% is one
\* percent sign, and the arguments must be used up exactly
Format(message, args) ==
    LET conv == {k \in 1..Len(message) : message[k] = "%s"}
    IN  IF Cardinality(conv) # Len(args) THEN [exc |-> "TypeError", text |-> <<>>]
        ELSE [exc |-> "none",
              text |-> [k \in 1..Len(message) |->
                          IF message[k] = "%s"
                          THEN args[Cardinality({j \in conv : j <= k})]
                          ELSE IF message[k] = "%%" THEN "%"
                          ELSE message[k]]]

RECURSIVE Join(_)
\* the pieces of a text put together
Join(pieces) == IF pieces = <<>> THEN "" ELSE Head(pieces) \o Join(Tail(pieces))

\* what follows the position in a printed diagnostic: the bracketed yaml path, if
\* there is one, and a space
PathPart(yaml_path) ==
    IF yaml_path # <<>> THEN <<" [", Join(yaml_path), "] ">> ELSE <<" ">>

\* lines 112-120 and 160-168: the GITHUB branch of error and warning
RenderGithub(d, rel_path) ==
    LET m == IF d.args # <<>> THEN Format(d.message, d.args)
             ELSE [exc |-> "none", text |-> d.message]
        l == Join(Str(d.line))
        c == Join(Str(d.col))
    IN  [exc |-> m.exc,
         prefix |-> "::" \o d.sev \o " file=" \o rel_path \o ",line=" \o l
                    \o ",col=" \o c \o "::",
         body |-> <<l, ":", c>> \o PathPart(d.yaml_path) \o m.text]

\* lines 121-132 and 169-180: the LOGGING branch; logging formats the record with
\* msg % args, and a record whose formatting raises is not written
RenderLogging(d, rel_path) ==
    LET l == Join(Str(d.line))
        c == Join(Str(d.col))
        m == IF d.yaml_path # <<>>
             THEN Format(<<"%s", ":", "%s", ":", "%s", " [", "%s", "] ">> \o d.message,
                         <<rel_path, l, c, Join(d.yaml_path)>> \o d.args)
             ELSE Format(<<"%s", ":", "%s", ":", "%s", " ">> \o d.message,
                         <<rel_path, l, c>> \o d.args)
    IN  [exc |-> m.exc,
         prefix |-> IF m.exc = "none" THEN Join(SubSeq(m.text, 1, 2)) ELSE "",
         body |-> IF m.exc = "none" THEN SubSeq(m.text, 3, Len(m.text)) ELSE <<>>]

\* lines 133-136 and 181-184: the STANDARD branch
RenderStandard(d, rel_path) ==
    LET m == IF d.args # <<>> THEN Format(d.message, d.args)
             ELSE [exc |-> "none", text |-> d.message]
        l == Join(Str(d.line))
        c == Join(Str(d.col))
    IN  [exc |-> m.exc,
         prefix |-> (IF d.sev = "error" THEN "ERROR: " ELSE "WARN: ") \o rel_path \o ":",
         body |-> <<l, ":", c>> \o PathPart(d.yaml_path) \o m.text]

\* `match self.message_format`: what is written for diagnostic d in format fmt: the
\* text up to the position, and the pieces of the text from the position on
Render(fmt, d, rel_path) ==
    CASE fmt = "GITHUB" -> RenderGithub(d, rel_path)
      [] fmt = "LOGGING" -> RenderLogging(d, rel_path)
      [] OTHER -> RenderStandard(d, rel_path)

----------------------------------------------------------------------------
(* The schema cache: functools.lru_cache around _load_schema, keyed by (self, path) *)

\* the schema corpus: every installed version has the three schema files
Installed(key) == key[2] \in versions /\ key[3] \in SchemaFiles

CacheIndex(c, key) == {i \in 1..Len(c) : c[i].key = key}

RemoveAt(c, i) == SubSeq(c, 1, i - 1) \o SubSeq(c, i + 1, Len(c))

\* mutant of LoadRaises: only a failed read becomes NoSuchResource
LoadRaises_ReadOnly(cause) == IF cause = "FileNotFoundError" THEN "NoSuchResource" ELSE cause

\* lines 288-289: whatever the body raises leaves _load_schema as NoSuchResource
LoadRaises(cause) == "NoSuchResource"

\* one call self._load_schema(path) with key = <<self, version, file>>; `readable`
\* says whether read_text and json.loads succeed when the file is there.
\* A hit moves the entry to the most recent end and reads nothing; a miss reads the
\* file, and a successful miss stores a new Resource, evicting the least recently
\* used entry when the cache is full; a failed miss raises and stores nothing.
LoadSchema(c, key, readable, obj) ==
    IF CacheIndex(c, key) # {}
    THEN LET i == CHOOSE j \in CacheIndex(c, key) : TRUE
         IN  [cache |-> Append(RemoveAt(c, i), c[i]), nextObj |-> obj, raised |-> FALSE,
              exc |-> "none",
              ret |-> [key |-> key, obj |-> c[i].obj, read |-> FALSE]]
    ELSE IF Installed(key) /\ readable
         THEN [cache |-> Append(IF Len(c) >= LruMaxSize THEN Tail(c) ELSE c,
                                [key |-> key, obj |-> obj]),
               nextObj |-> obj + 1, raised |-> FALSE, exc |-> "none",
               ret |-> [key |-> key, obj |-> obj, read |-> TRUE]]
         ELSE [cache |-> c, nextObj |-> obj, raised |-> TRUE,
               exc |-> LoadRaises(IF Installed(key) THEN "JSONDecodeError"
                                  ELSE "FileNotFoundError"),
               ret |-> [key |-> key, obj |-> 0, read |-> TRUE]]

\* history of first successful loads, kept beside the cache
Remember(h, r) ==
    IF r.raised \/ (\E e \in h : e[1] = r.ret.key) THEN h
    ELSE h \cup {<<r.ret.key, r.ret.obj>>}

NoRet == [key |-> <<0, 0, "">>, obj |-> 0, read |-> FALSE]

\* no exception has left parse
NoExc == [type |-> "none", cause |-> "none"]

\* mutant of Wrap: the exception leaves parse as it is
Wrap_Bare(cause) == [type |-> cause, cause |-> cause]

\* lines 412-413: `except Exception as e: raise TaxonomyReadingException from e`
Wrap(cause) == [type |-> "TaxonomyReadingException", cause |-> cause]

----------------------------------------------------------------------------
(* TaxonomyParser.parse, step by step *)

\* str(Path(*parts)): the parts joined with "/" after the root
RECURSIVE JoinPath(_)
JoinPath(parts) ==
    IF parts = <<>> THEN ""
    ELSE IF Len(parts) = 1 THEN parts[1]
    ELSE IF parts[1] = "/" THEN "/" \o JoinPath(Tail(parts))
    ELSE parts[1] \o "/" \o JoinPath(Tail(parts))

\* abs_path.name
BaseName(parts) == parts[Len(parts)]

\* mutant of AnchorPath: the scan runs from the start of the path
AnchorPath_First(parts, folders) ==
    LET hits == {i \in 1..Len(parts) : parts[i] \in folders}
    IN  IF hits = {} THEN parts
        ELSE SubSeq(parts, CHOOSE i \in hits : \A j \in hits : i <= j, Len(parts))

\* lines 361-366: the entry's path starts at the last part that is a taxonomy
\* folder; it is the whole absolute path when no part is one
AnchorPath(parts, folders) ==
    LET hits == {i \in 1..Len(parts) : parts[i] \in folders}
    IN  IF hits = {} THEN parts
        ELSE SubSeq(parts, CHOOSE i \in hits : \A j \in hits : j <= i, Len(parts))

\* the paths parse is called with (absolute, already resolved)
AnchoredPath == <<"/", "taxonomy", "knowledge", "a", "qna.yaml">>
PlainPath == <<"/", "tmp", "qna.yaml">>

NestedPath == <<"/", "knowledge", "compositional_skills", "b", "qna.yaml">>

AllPaths ==
    { AnchoredPath, PlainPath, NestedPath,
      <<"/", "taxonomy", "knowledge", "a", "qna.yml">>,
      <<"/", "tmp", "file.yaml">>,
      <<"/", "taxonomy", "knowledge">> }

\* the values a document carries under "version"
VersionValues ==
    { PyInt(0), PyInt(1), PyInt(2), PyBool(TRUE),
      PyStr(<<" ", "2">>), PyStr(<<"x">>), PyStr(<<"-", "1">>),
      PyFloat(25), PyNan, PyInf, PyNone, PyList(1) }

\* a skill document with value v under "version", and a knowledge document
Skill(v) == PyMap({"created_by", "version"}, v)
Knowledge(v) == PyMap({"document", "version"}, v)

\* what yaml.safe_load returns
AllDocuments ==
    {PyNone, PyStr(<<"x">>), PyInt(0), PyMap({}, Absent)}
    \cup {PyList(n) : n \in 0..MaxSeqLen}
    \cup {PyMap({"created_by"}, Absent), PyMap({"created_by", "document"}, Absent)}
    \cup {Skill(v) : v \in VersionValues}
    \cup {Knowledge(PyInt(2))}

Unset == [t |-> "unset", v |-> 0]

NoViolation == [n |-> 0, validator |-> "", validator_value |-> 0, message |-> <<>>,
                json_path |-> <<>>, yq |-> "none", text |-> <<>>,
                line |-> DefaultLine]

\* one line of yamllint's output, `<file>:<line>:<col>: [<severity>] <message>`;
\* `bracket` says whether the bracketed severity is there at all
LintLine(f, l, c, b, sev, m) ==
    [file |-> f, line |-> l, col |-> c, bracket |-> b, severity |-> sev, message |-> m]

LintLineKinds ==
    { LintLine("stdin", <<"3">>, <<"1">>, TRUE, "error", "syntax error"),
      LintLine("stdin", <<"5">>, <<"1", "2", "1">>, TRUE, "warning", "line too long"),
      LintLine("usage", <<>>, <<>>, FALSE, "", "") }

AllLintOutputs ==
    UNION {[1..n -> LintLineKinds] : n \in 0..MaxLintLines}

\* line 260-263: pattern.match(line): every group of the pattern needs one character
Matches(l) ==
    l.file # "" /\ l.line # <<>> /\ l.col # <<>> /\ l.bracket /\ l.severity # ""

\* a message of the schema engine, n characters long, every character different
EngineMessage(n) == [i \in 1..n |-> ToString(i)]

\* the validation errors iter_errors yields
AllViolations ==
    { [validator |-> "minItems", validator_value |-> 5,
       message |-> EngineMessage(MessageTail + 50), json_path |-> <<"$", ".seed_examples">>],
      [validator |-> "required", validator_value |-> 0,
       message |-> EngineMessage(3), json_path |-> <<"$">>],
      [validator |-> "type", validator_value |-> 0,
       message |-> EngineMessage(MessageTail), json_path |-> <<"$", ".created_by">>],
      [validator |-> "unevaluatedProperties", validator_value |-> 0,
       message |-> EngineMessage(MessageTail + 1), json_path |-> <<"$", ".version">>],
      \* the engine quotes the offending value: here the string 'x%s'
      [validator |-> "type", validator_value |-> 0,
       message |-> <<"'x", "%s", "' is not of type 'array'">>,
       json_path |-> <<"$", ".seed_examples">>] }

\* what running yq gives: its output, or the exception subprocess raises
AllYqOutcomes ==
    { [kind |-> "output", text |-> <<"7", "\n">>],
      [kind |-> "output", text |-> <<>>],
      [kind |-> "output", text |-> <<"n", "u", "l", "l", "\n">>],
      [kind |-> "output", text |-> <<"\n">>],
      [kind |-> "CalledProcessError", text |-> <<>>],
      [kind |-> "FileNotFoundError", text |-> <<>>],
      [kind |-> "PermissionError", text |-> <<>>] }


\* The runs that are explored. Each world fixes what the caller passes in, what is on
\* disk and what the external tools answer, so that every stage of parse is explored
\* in depth in one of them:
\*   "files"   every path and every document, up to the resolution of the version
\*   "lint"    every lint output, under both settings of yamllint_strict
\*   "schema"  every validation error, over several parse calls
\*   "locate"  every answer of yq, over several parse calls
\*   "format"  every message format, with os.environ changing under the parse
\*   "config"  every way of constructing the parser, over several schema corpora
Worlds == {"files", "lint", "schema", "locate", "format", "config"}

Paths(w) ==
    CASE w = "files" -> AllPaths
      [] w = "schema" -> {AnchoredPath, PlainPath}
      [] w = "locate" -> {PlainPath}
      [] w = "config" -> {AnchoredPath, PlainPath, NestedPath}
      [] OTHER -> {AnchoredPath}

Documents(w) ==
    CASE w = "files" -> AllDocuments
      [] w = "lint" -> {PyMap({"created_by"}, Absent), Skill(PyInt(0)), Skill(PyInt(2))}
      [] w = "schema" -> {Skill(PyInt(2)), Knowledge(PyInt(2))}
      [] w = "locate" -> {Skill(PyInt(2))}
      [] w = "config" -> {Skill(PyInt(1)), Knowledge(PyInt(2))}
      [] OTHER -> {PyNone, PyList(1), Skill(PyInt(2))}

LintOutputs(w) ==
    CASE w = "lint" -> AllLintOutputs
      [] OTHER -> {ls \in AllLintOutputs : Len(ls) <= 1 /\ \A i \in 1..Len(ls) : Matches(ls[i])}

Violations(w) ==
    CASE w = "schema" -> AllViolations
      [] OTHER -> {v \in AllViolations : v.validator \in {"minItems", "required"}}

YqOutcomes(w) ==
    CASE w = "locate" -> AllYqOutcomes
      [] OTHER -> {y \in AllYqOutcomes : y.kind = "output" /\ y.text = <<"7", "\n">>}

\* the number of parse calls the caller makes on the parser
Parses(w) == IF w \in {"schema", "locate"} THEN MaxParses ELSE 1

\* whether os.environ is changed while the parser runs
EnvChanges(w) == w = "format"

StrictFlags(w) == IF w = "lint" THEN BOOLEAN ELSE {FALSE}

Formats(w) == IF w = "format" THEN MessageFormats ELSE {"LOGGING"}

Environments(w) == IF w = "format" THEN SUBSET CIMarkers ELSE {{}}

\* what is under the schema base: nothing, a single version, or v1 .. vN
Corpora(w) ==
    IF w = "config" THEN {{}, {NumSchemaVersions}, 1..NumSchemaVersions}
    ELSE {1..NumSchemaVersions}

\* the taxonomy_folders argument: None, or a list of names
NoFolders == [t |-> "none", v |-> {}]
FolderList(fs) == [t |-> "list", v |-> fs]

FolderArgs(w) ==
    IF w = "config" THEN {NoFolders, FolderList({"taxonomy", "a"})} ELSE {NoFolders}

\* the schema_version argument: None, or a number
SchemaVersionArgs(w) ==
    IF w = "config" THEN {PyNone, PyInt(0), PyInt(1)}
    ELSE {PyInt(n) : n \in 0..NumSchemaVersions}

\* the keyword arguments of TaxonomyParser(...)
CtorArgs(w) ==
    [schema_version : SchemaVersionArgs(w), taxonomy_folders : FolderArgs(w),
     yamllint_strict : StrictFlags(w), message_format : Formats(w)]

\* lines 360-366: the Taxonomy entry is created
Create ==
    /\ pc \in {"idle", "done", "raised"}
    /\ parses < Parses(world)
    /\ \E p \in Paths(world), f \in BOOLEAN :
          /\ file' = [path |-> p, is_file |-> f]
          /\ taxonomy' = NewTaxonomy(AnchorPath(p, parser.taxonomy_folders),
                                     parser.message_format, env)
    /\ pc' = "isfile"
    /\ parses' = parses + 1
    /\ parsed' = Unset
    /\ out' = <<>>
    /\ lines' = <<>>
    /\ violation' = NoViolation
    /\ calls' = <<>>
    /\ exc' = NoExc
    /\ UNCHANGED <<parser, env, cache, nextObj, ret, firstLoad, world,
                   versions, ctor, threads, loads>>

\* mutant of CheckIsFile: the name is looked at before the file is looked for
CheckIsFile_NameFirst ==
    /\ pc = "isfile"
    /\ calls' = Append(calls, "isfile")
    /\ IF BaseName(file.path) # "qna.yaml"
       THEN /\ taxonomy' = Error(taxonomy)
            /\ out' = <<Diag("error", taxonomy, MsgBadName, <<BaseName(file.path)>>,
                             DefaultLine, DefaultCol, <<>>)>>
            /\ pc' = "done"
       ELSE IF ~file.is_file
       THEN /\ taxonomy' = Error(taxonomy)
            /\ out' = <<Diag("error", taxonomy, MsgNotAFile, <<JoinPath(file.path)>>,
                             DefaultLine, DefaultCol, <<>>)>>
            /\ pc' = "done"
       ELSE /\ pc' = "name"
            /\ out' = <<>>
            /\ UNCHANGED taxonomy
    /\ UNCHANGED <<parser, env, file, parsed, lines, violation, exc, parses,
                   cache, nextObj, ret, firstLoad, world,
                   versions, ctor, threads, loads>>

\* lines 368-372
CheckIsFile ==
    /\ pc = "isfile"
    /\ calls' = Append(calls, "isfile")
    /\ IF ~file.is_file
       THEN /\ taxonomy' = Error(taxonomy)
            /\ out' = <<Diag("error", taxonomy, MsgNotAFile, <<JoinPath(file.path)>>,
                             DefaultLine, DefaultCol, <<>>)>>
            /\ pc' = "done"
       ELSE /\ pc' = "name"
            /\ out' = <<>>
            /\ UNCHANGED taxonomy
    /\ UNCHANGED <<parser, env, file, parsed, lines, violation, exc, parses,
                   cache, nextObj, ret, firstLoad, world,
                   versions, ctor, threads, loads>>

\* mutant of NameIsValid: either YAML extension is accepted
NameIsValid_AnyExtension(name) == name \in {"qna.yaml", "qna.yml"}

\* line 374: abs_path.name != "qna.yaml"
NameIsValid(name) == name = "qna.yaml"

\* lines 374-378
CheckName ==
    /\ pc = "name"
    /\ IF ~NameIsValid(BaseName(file.path))
       THEN /\ taxonomy' = Error(taxonomy)
            /\ out' = <<Diag("error", taxonomy, MsgBadName, <<BaseName(file.path)>>,
                             DefaultLine, DefaultCol, <<>>)>>
            /\ pc' = "done"
       ELSE /\ pc' = "decode"
            /\ out' = <<>>
            /\ UNCHANGED taxonomy
    /\ UNCHANGED <<parser, env, file, parsed, lines, violation, calls, exc, parses,
                   cache, nextObj, ret, firstLoad, world,
                   versions, ctor, threads, loads>>

\* lines 380-382 raising: open or read fails
DecodeReadFails ==
    /\ pc = "decode"
    /\ calls' = Append(calls, "open")
    /\ pc' = "raised"
    /\ exc' = Wrap("OSError")
    /\ out' = <<>>
    /\ UNCHANGED <<parser, env, file, parsed, taxonomy, lines, violation, parses,
                   cache, nextObj, ret, firstLoad, world,
                   versions, ctor, threads, loads>>

\* line 384 raising: the text is not YAML
DecodeYamlFails ==
    /\ pc = "decode"
    /\ calls' = calls \o <<"open", "safe_load">>
    /\ pc' = "raised"
    /\ exc' = Wrap("YAMLError")
    /\ out' = <<>>
    /\ UNCHANGED <<parser, env, file, parsed, taxonomy, lines, violation, parses,
                   cache, nextObj, ret, firstLoad, world,
                   versions, ctor, threads, loads>>

\* lines 380-391: the file is read and decoded
Decode ==
    /\ pc = "decode"
    /\ calls' = calls \o <<"open", "safe_load">>
    /\ \E d \in Documents(world) :
          /\ parsed' = d
          /\ IF Falsy(d)
             THEN /\ taxonomy' = Warning(taxonomy)
                  /\ out' = <<Diag("warning", taxonomy, MsgEmpty, <<>>,
                                   DefaultLine, DefaultCol, <<>>)>>
                  /\ pc' = "done"
             ELSE IF ~IsMapping(d)
             THEN /\ taxonomy' = Error(taxonomy)
                  /\ out' = <<Diag("error", taxonomy, MsgNotObject, <<>>,
                                   DefaultLine, DefaultCol, <<>>)>>
                  /\ pc' = "done"
             ELSE /\ pc' = "version"
                  /\ out' = <<>>
                  /\ UNCHANGED taxonomy
    /\ UNCHANGED <<parser, env, file, lines, violation, exc, parses,
                   cache, nextObj, ret, firstLoad, world,
                   versions, ctor, threads, loads>>

\* lines 393-403: the version of a mapping document, or the exception that escapes
\* the inner try (only ValueError is caught there)
VersionOf(schema_version, doc) ==
    IF schema_version >= 1 THEN [exc |-> "none", v |-> schema_version]
    ELSE LET parsed_version == GetVersion(doc)
         IN  IF IsInstanceInt(parsed_version)
             THEN [exc |-> "none", v |-> IntValue(parsed_version)]
             ELSE LET r == IntOf(parsed_version)
                  IN  IF r.exc = "ValueError" THEN [exc |-> "none", v |-> 1] ELSE r

\* lines 393-406
ResolveVersion ==
    /\ pc = "version"
    /\ LET r == VersionOf(parser.schema_version, parsed)
       IN  IF r.exc = "none"
           THEN /\ taxonomy' = [taxonomy EXCEPT !.version = r.v, !.parsed = parsed]
                /\ pc' = "lint"
                /\ UNCHANGED exc
           ELSE /\ pc' = "raised"
                /\ exc' = Wrap(r.exc)
                /\ UNCHANGED taxonomy
    /\ out' = <<>>
    /\ UNCHANGED <<parser, env, file, parsed, lines, violation, calls, parses,
                   cache, nextObj, ret, firstLoad, world,
                   versions, ctor, threads, loads>>

----------------------------------------------------------------------------
(* _yamllint *)

\* mutant of LintIsError: the strict flag is ignored
LintIsError_SeverityOnly(strict, severity) == severity = "error"

\* line 268: the finding is an error
LintIsError(strict, severity) == strict \/ severity = "error"

RECURSIVE LintReport(_, _, _)
\* lines 261-279: [tx, out] after the findings of `ls` are reported on tx
LintReport(ls, strict, tx) ==
    IF ls = <<>> THEN [tx |-> tx, out |-> <<>>]
    ELSE LET l == Head(ls)
             sev == IF LintIsError(strict, l.severity) THEN "error" ELSE "warning"
             tx1 == IF ~Matches(l) THEN tx
                    ELSE IF sev = "error" THEN Error(tx) ELSE Warning(tx)
             rest == LintReport(Tail(ls), strict, tx1)
         IN  IF Matches(l)
             THEN [tx |-> rest.tx,
                   out |-> <<Diag(sev, tx, <<l.message>>, <<>>,
                                  PyStr(l.line), PyStr(l.col), <<>>)>> \o rest.out]
             ELSE rest

\* mutant of LintApplies: every version but 1 is linted
LintApplies_NotOne(version) == version # 1

\* line 408: linting applies to this version
LintApplies(version) == version > 1

\* line 408 false: no linting for a version 1 document
LintSkipped ==
    /\ pc = "lint"
    /\ ~LintApplies(taxonomy.version)
    /\ pc' = "schema"
    /\ out' = <<>>
    /\ UNCHANGED <<parser, env, file, parsed, taxonomy, lines, violation, calls, exc,
                   parses, cache, nextObj, ret, firstLoad, world,
                   versions, ctor, threads, loads>>

\* lines 242-256: the yamllint command is not there
LintToolMissing ==
    /\ pc = "lint"
    /\ LintApplies(taxonomy.version)
    /\ calls' = Append(calls, "yamllint")
    /\ pc' = "schema"
    /\ out' = <<>>
    /\ UNCHANGED <<parser, env, file, parsed, taxonomy, lines, violation, exc,
                   parses, cache, nextObj, ret, firstLoad, world,
                   versions, ctor, threads, loads>>

\* lines 242-279: yamllint runs and its findings are reported
Lint ==
    /\ pc = "lint"
    /\ LintApplies(taxonomy.version)
    /\ calls' = Append(calls, "yamllint")
    /\ \E ls \in LintOutputs(world) :
          LET r == LintReport(ls, parser.yamllint_strict, taxonomy)
          IN  /\ lines' = ls
              /\ taxonomy' = r.tx
              /\ out' = r.out
    /\ pc' = "schema"
    /\ UNCHANGED <<parser, env, file, parsed, violation, exc,
                   parses, cache, nextObj, ret, firstLoad, world,
                   versions, ctor, threads, loads>>

----------------------------------------------------------------------------
(* _schema_validate *)

\* mutant of SchemaName: the document alone decides
SchemaName_ByDocument(tx, folders) ==
    IF "document" \in tx.parsed.v.keys THEN "knowledge" ELSE "compositional_skills"

\* lines 297-299
SchemaName(tx, folders) ==
    IF tx.path[1] \in folders THEN tx.path[1]
    ELSE IF "document" \in tx.parsed.v.keys THEN "knowledge" ELSE "compositional_skills"

\* lines 291-293 and 296: the cache key of a schema file of the entry's version
SchemaKey(self, version, name) == <<self, version, name \o ".json">>

\* Path(version_base, schema).as_posix()
SchemaPath(key) == "v" \o ToString(key[2]) \o "/" \o key[3]

\* mutant of LastChars: message[:k]
LastChars_First(m, k) == IF Len(m) > k THEN SubSeq(m, 1, k) ELSE m

\* message[-k:]
LastChars(m, k) == IF Len(m) > k THEN SubSeq(m, Len(m) - k + 1, Len(m)) ELSE m

\* lines 309-311: json_path[1:], "." for the root
YamlPath(json_path) == IF Tail(json_path) = <<>> THEN <<".">> ELSE Tail(json_path)

\* lines 312-324: the line reported for a violation
LocateLine(yq_available, y) ==
    IF yq_available /\ y.kind = "output"
    THEN IF y.text # <<>> THEN PyStr(Strip(y.text)) ELSE DefaultLine
    ELSE DefaultLine

\* lines 325-338: the message and arguments passed to taxonomy.error
ViolationMessage(v) ==
    IF v.validator = "minItems"
    THEN [message |-> MsgMinItems, args |-> <<ToString(v.validator_value)>>]
    ELSE [message |-> LastChars(v.message, MessageTail), args |-> <<>>]

\* line 312 false: yq is not run
NoYq == [kind |-> "none", text |-> <<>>]

\* line 318: the exceptions of the yq call that the loop catches
YqCaught == {"CalledProcessError", "FileNotFoundError"}

\* mutant of YqAvailable: any failure of yq turns the flag off
YqAvailable_AnyFailure(flag, kind) == flag /\ kind = "output"

\* lines 312 and 319-320: self.yq_available after yq was tried, or was skipped
YqAvailable(flag, kind) == flag /\ kind # "FileNotFoundError"

\* lines 296-306 and 339-344: the schema of the entry is retrieved
SchemaStart ==
    /\ pc = "schema"
    /\ calls' = Append(calls, "load_schema")
    /\ \E readable \in BOOLEAN :
          LET key == SchemaKey(1, taxonomy.version,
                               SchemaName(taxonomy, parser.taxonomy_folders))
              r == LoadSchema(cache, key, readable, nextObj)
          IN  /\ cache' = r.cache
              /\ nextObj' = r.nextObj
              /\ ret' = r.ret
              /\ firstLoad' = Remember(firstLoad, r)
              /\ IF r.raised /\ r.exc = "NoSuchResource"
                 THEN /\ taxonomy' = Error(taxonomy)
                      /\ out' = <<Diag("error", taxonomy, MsgNoSchema,
                                       <<SchemaPath(key), SchemaPath(key)>>,
                                       DefaultLine, DefaultCol, <<>>)>>
                      /\ pc' = "done"
                      /\ UNCHANGED exc
                 ELSE IF r.raised
                 THEN /\ pc' = "raised"
                      /\ exc' = Wrap(r.exc)
                      /\ out' = <<>>
                      /\ UNCHANGED taxonomy
                 ELSE /\ pc' = "iter"
                      /\ out' = <<>>
                      /\ UNCHANGED <<taxonomy, exc>>
    /\ UNCHANGED <<parser, env, file, parsed, lines, violation, parses, world,
                   versions, ctor, threads, loads>>

\* lines 308-338: one validation error is located and reported
SchemaViolation ==
    /\ pc = "iter"
    /\ violation.n < MaxViolations
    /\ \E v \in Violations(world),
          y \in IF parser.yq_available THEN YqOutcomes(world) ELSE {NoYq} :
          LET tried == parser.yq_available
              escapes == tried /\ y.kind # "output" /\ y.kind \notin YqCaught
              line == LocateLine(parser.yq_available, y)
              m == ViolationMessage(v)
          IN  /\ violation' = [n |-> violation.n + 1, validator |-> v.validator,
                               validator_value |-> v.validator_value,
                               message |-> v.message, json_path |-> v.json_path,
                               yq |-> IF tried THEN y.kind ELSE "none",
                               text |-> IF tried THEN y.text ELSE <<>>,
                               line |-> line]
              /\ calls' = IF tried THEN Append(calls, "yq") ELSE calls
              /\ IF escapes
                 THEN /\ pc' = "raised"
                      /\ exc' = Wrap(y.kind)
                      /\ out' = <<>>
                      /\ UNCHANGED <<parser, taxonomy>>
                 ELSE /\ parser' = [parser EXCEPT !.yq_available =
                                        YqAvailable(@, IF tried THEN y.kind ELSE "none")]
                      /\ taxonomy' = Error(taxonomy)
                      /\ out' = <<Diag("error", taxonomy, m.message, m.args,
                                       line, DefaultCol, YamlPath(v.json_path))>>
                      /\ UNCHANGED <<pc, exc>>
    /\ UNCHANGED <<env, file, parsed, lines, parses,
                   cache, nextObj, ret, firstLoad, world,
                   versions, ctor, threads, loads>>

\* lines 291-293 under Registry(retrieve=...): a $ref to version.json is retrieved
\* while the validator iterates; a reference that cannot be retrieved ends the
\* iteration with an exception
SchemaRetrieveRef ==
    /\ pc = "iter"
    /\ "retrieve" \notin {calls[i] : i \in 1..Len(calls)}
    /\ calls' = Append(calls, "retrieve")
    /\ out' = <<>>
    /\ \E readable \in BOOLEAN :
          LET key == <<1, taxonomy.version, "version.json">>
              r == LoadSchema(cache, key, readable, nextObj)
          IN  /\ cache' = r.cache
              /\ nextObj' = r.nextObj
              /\ ret' = r.ret
              /\ firstLoad' = Remember(firstLoad, r)
              /\ IF r.raised
                 THEN pc' = "raised" /\ exc' = Wrap("Unresolvable")
                 ELSE UNCHANGED <<pc, exc>>
    /\ UNCHANGED <<parser, env, file, parsed, taxonomy, lines, violation, parses, world,
                   versions, ctor, threads, loads>>

\* line 308: iter_errors is exhausted; line 415: the entry is returned
SchemaEnd ==
    /\ pc = "iter"
    /\ pc' = "done"
    /\ out' = <<>>
    /\ UNCHANGED <<parser, env, file, parsed, taxonomy, lines, violation, calls, exc,
                   parses, cache, nextObj, ret, firstLoad, world,
                   versions, ctor, threads, loads>>

----------------------------------------------------------------------------
(* The environment, and the specification of one parser *)

\* os.environ changes while the program runs
EnvChange ==
    /\ EnvChanges(world)
    /\ \E m \in CIMarkers : env' = IF m \in env THEN env \ {m} ELSE env \cup {m}
    /\ UNCHANGED <<parser, pc, file, parsed, taxonomy, out, lines, violation, calls,
                   exc, parses, cache, nextObj, ret, firstLoad, world,
                   versions, ctor, threads, loads>>

\* versions[-1] of the sorted schema_versions(): the highest number
HighestVersion(vs) == CHOOSE n \in vs : \A m \in vs : m <= n

\* lines 215-218: the constructor raises TaxonomyReadingException
ConstructionFails(args, vs) == args.schema_version = PyNone /\ vs = {}

\* TaxonomyParser.__init__: the attributes of the new instance
NewParser(args, vs) ==
    [taxonomy_folders |-> IF args.taxonomy_folders.t = "none"
                          THEN DEFAULT_TAXONOMY_FOLDERS ELSE args.taxonomy_folders.v,
     schema_version |-> IF args.schema_version = PyNone
                        THEN HighestVersion(vs) ELSE args.schema_version.v,
     yamllint_strict |-> args.yamllint_strict,
     message_format |-> args.message_format,
     yq_available |-> TRUE]

\* the constructor raised: there is no instance, and its attributes are never read
NoParser ==
    [taxonomy_folders |-> {}, schema_version |-> 0, yamllint_strict |-> FALSE,
     message_format |-> "NONE", yq_available |-> TRUE]

Init ==
    /\ world \in Worlds
    /\ versions \in Corpora(world)
    /\ ctor \in CtorArgs(world)
    /\ IF ConstructionFails(ctor, versions)
       THEN parser = NoParser /\ pc = "config_error"
       ELSE parser = NewParser(ctor, versions) /\ pc = "idle"
    /\ env \in Environments(world)
    /\ file = [path |-> <<>>, is_file |-> FALSE]
    /\ parsed = Unset
    /\ taxonomy = NoTaxonomy
    /\ out = <<>>
    /\ lines = <<>>
    /\ violation = NoViolation
    /\ calls = <<>>
    /\ exc = NoExc
    /\ parses = 0
    /\ cache = <<>>
    /\ nextObj = 1
    /\ ret = NoRet
    /\ firstLoad = {}
    /\ threads = <<>>
    /\ loads = <<>>

Next ==
    \/ Create
    \/ CheckIsFile
    \/ CheckName
    \/ DecodeReadFails
    \/ DecodeYamlFails
    \/ Decode
    \/ ResolveVersion
    \/ LintSkipped
    \/ LintToolMissing
    \/ Lint
    \/ SchemaStart
    \/ SchemaViolation
    \/ SchemaRetrieveRef
    \/ SchemaEnd
    \/ EnvChange

Spec == Init /\ [][Next]_vars

----------------------------------------------------------------------------
(* The schema cache under many parsers: _load_schema is decorated on the class, so *)
(* every TaxonomyParser of the process shares one cache, keyed by (self, path).    *)

SchemaFileSeq == <<"compositional_skills.json", "knowledge.json", "version.json">>

\* the key parser 1 loads again and again
WatchedKey == <<1, 1, "knowledge.json">>

\* the i-th key of the other parsers, parser by parser, version by version
OtherKey(i) ==
    <<2 + ((i - 1) \div (3 * NumSchemaVersions)),
      1 + (((i - 1) \div 3) % NumSchemaVersions),
      SchemaFileSeq[1 + ((i - 1) % 3)]>>

NumOtherKeys == CacheParsers * NumSchemaVersions * 3

OthersLoaded == Cardinality({e \in firstLoad : e[1] # WatchedKey})

CacheCall(key, readable) ==
    LET r == LoadSchema(cache, key, readable, nextObj)
    IN  /\ cache' = r.cache
        /\ nextObj' = r.nextObj
        /\ ret' = r.ret
        /\ firstLoad' = Remember(firstLoad, r)
        /\ UNCHANGED <<parser, env, pc, file, parsed, taxonomy, out, lines, violation,
                       calls, exc, parses, world,
                   versions, ctor, threads, loads>>

\* parser 1 validates a knowledge document of version 1
CacheLoadWatched == \E readable \in BOOLEAN : CacheCall(WatchedKey, readable)

\* once parser 1 has its schema, another parser loads a schema file it has not
\* loaded before
CacheLoadOther ==
    /\ \E e \in firstLoad : e[1] = WatchedKey
    /\ OthersLoaded < NumOtherKeys
    /\ CacheCall(OtherKey(OthersLoaded + 1), TRUE)

\* parser 1 asks for a schema of a version that is not installed
CacheLoadMissing == CacheCall(<<1, 0, "knowledge.json">>, TRUE)

InitCache ==
    /\ world = "cache"
    /\ versions = 1..NumSchemaVersions
    /\ ctor = [schema_version |-> PyInt(0), taxonomy_folders |-> NoFolders,
               yamllint_strict |-> FALSE, message_format |-> "LOGGING"]
    /\ parser = NewParser(ctor, versions)
    /\ threads = <<>>
    /\ loads = <<>>
    /\ env = {}
    /\ pc = "idle"
    /\ file = [path |-> <<>>, is_file |-> FALSE]
    /\ parsed = Unset
    /\ taxonomy = NoTaxonomy
    /\ out = <<>>
    /\ lines = <<>>
    /\ violation = NoViolation
    /\ calls = <<>>
    /\ exc = NoExc
    /\ parses = 0
    /\ cache = <<>>
    /\ nextObj = 1
    /\ ret = NoRet
    /\ firstLoad = {}

NextCache ==
    \/ CacheLoadWatched
    \/ CacheLoadOther
    \/ CacheLoadMissing

SpecCache == InitCache /\ [][NextCache]_vars

----------------------------------------------------------------------------
(* The schema cache under threads: several parse calls on one parser run at once.  *)
(* The lru_cache wrapper looks the key up; on a miss it runs the body of           *)
(* _load_schema, which reads the file and so lets other threads run; then it       *)
(* stores the result unless the key was stored meanwhile, and returns the result   *)
(* of its own run of the body either way.                                          *)

\* the schema files the threads ask for, all through the one parser
ThreadKeys == {<<1, 1, "knowledge.json">>, <<1, 1, "version.json">>}

IdleThread == [pc |-> "idle", key |-> <<0, 0, "">>, obj |-> 0, calls |-> 0]

\* thread t calls self._load_schema(path): the wrapper's lookup
ThreadCall(t) ==
    /\ threads[t].pc = "idle"
    /\ threads[t].calls < MaxThreadCalls
    /\ \E key \in ThreadKeys :
          IF CacheIndex(cache, key) # {}
          THEN LET i == CHOOSE j \in CacheIndex(cache, key) : TRUE
               IN  /\ cache' = Append(RemoveAt(cache, i), cache[i])
                   /\ threads' = [threads EXCEPT ![t] =
                          [pc |-> "returned", key |-> key, obj |-> cache[i].obj,
                           calls |-> @.calls + 1]]
          ELSE /\ threads' = [threads EXCEPT ![t] =
                      [pc |-> "body", key |-> key, obj |-> 0, calls |-> @.calls + 1]]
               /\ UNCHANGED cache
    /\ UNCHANGED <<parser, env, pc, file, parsed, taxonomy, out, lines, violation,
                   calls, exc, parses, nextObj, ret, firstLoad, world, versions,
                   ctor, loads>>

\* lines 283-287 in thread t: the file is read and decoded into a new Resource;
\* lines 288-289: or that fails and NoSuchResource is raised, and nothing is stored
ThreadBody(t) ==
    /\ threads[t].pc = "body"
    /\ \E readable \in BOOLEAN :
          IF Installed(threads[t].key) /\ readable
          THEN /\ threads' = [threads EXCEPT ![t].pc = "store", ![t].obj = nextObj]
               /\ nextObj' = nextObj + 1
               /\ loads' = [loads EXCEPT ![threads[t].key] = @ + 1]
          ELSE /\ threads' = [threads EXCEPT ![t].pc = "raised"]
               /\ UNCHANGED <<nextObj, loads>>
    /\ UNCHANGED <<parser, env, pc, file, parsed, taxonomy, out, lines, violation,
                   calls, exc, parses, cache, ret, firstLoad, world, versions, ctor>>

\* the wrapper after the body returned in thread t
ThreadStore(t) ==
    /\ threads[t].pc = "store"
    /\ cache' = IF CacheIndex(cache, threads[t].key) # {} THEN cache
                ELSE Append(IF Len(cache) >= LruMaxSize THEN Tail(cache) ELSE cache,
                            [key |-> threads[t].key, obj |-> threads[t].obj])
    /\ threads' = [threads EXCEPT ![t].pc = "returned"]
    /\ UNCHANGED <<parser, env, pc, file, parsed, taxonomy, out, lines, violation,
                   calls, exc, parses, nextObj, ret, firstLoad, world, versions,
                   ctor, loads>>

\* thread t goes on with the schema it got, or with the error, and is free to call
\* again
ThreadDone(t) ==
    /\ threads[t].pc \in {"returned", "raised"}
    /\ threads[t].calls < MaxThreadCalls
    /\ threads' = [threads EXCEPT ![t].pc = "idle"]
    /\ UNCHANGED <<parser, env, pc, file, parsed, taxonomy, out, lines, violation,
                   calls, exc, parses, cache, nextObj, ret, firstLoad, world,
                   versions, ctor, loads>>

InitThreads ==
    /\ world = "threads"
    /\ versions = 1..NumSchemaVersions
    /\ ctor = [schema_version |-> PyInt(0), taxonomy_folders |-> NoFolders,
               yamllint_strict |-> FALSE, message_format |-> "LOGGING"]
    /\ parser = NewParser(ctor, versions)
    /\ threads = [t \in 1..NumThreads |-> IdleThread]
    /\ loads = [k \in ThreadKeys |-> 0]
    /\ env = {}
    /\ pc = "idle"
    /\ file = [path |-> <<>>, is_file |-> FALSE]
    /\ parsed = Unset
    /\ taxonomy = NoTaxonomy
    /\ out = <<>>
    /\ lines = <<>>
    /\ violation = NoViolation
    /\ calls = <<>>
    /\ exc = NoExc
    /\ parses = 0
    /\ cache = <<>>
    /\ nextObj = 1
    /\ ret = NoRet
    /\ firstLoad = {}

NextThreads ==
    \E t \in 1..NumThreads :
        \/ ThreadCall(t)
        \/ ThreadBody(t)
        \/ ThreadStore(t)
        \/ ThreadDone(t)

SpecThreads == InitThreads /\ [][NextThreads]_vars

----------------------------------------------------------------------------
(* Claims *)

\* C10 (as stated): after a successful load of a (version, name) pair on a parser,
\* every later load of that pair on that parser returns the very same document and
\* reads no file, whatever was loaded in between.  The last call is either the
\* first successful load itself (it read the file and made the newest object) or
\* it returned the first load's object without reading.
C10_CacheRoundTrip ==
    \A e \in firstLoad :
        ret.key = e[1] =>
            \/ ret.obj = e[2] /\ ~ret.read
            \/ ret.obj = e[2] /\ ret.read /\ nextObj = e[2] + 1

Called(c) == \E i \in 1..Len(calls) : calls[i] = c

\* the exceptions int() raises that the inner try of parse does not catch
ConversionErrors == {"TypeError", "OverflowError"}

\* the document is a non-empty mapping and its version has been worked out
VersionStepTaken ==
    /\ parsed.t = "map"
    /\ parsed.v.keys # {}
    /\ pc \in {"lint", "schema", "iter", "done", "raised"}

\* the version C1 says the entry gets
C1_ClaimedVersion ==
    IF parser.schema_version >= 1 THEN parser.schema_version
    ELSE IF "version" \notin parsed.v.keys THEN 1
    ELSE IF parsed.v.version.t = "int" THEN parsed.v.version.v
    ELSE IF IntOf(parsed.v.version).exc = "none" THEN IntOf(parsed.v.version).v
    ELSE 1

\* C1 (as stated): the resolved version is the configured one when that is >= 1,
\* else the document's integer version, 1 when the key is absent, and for any other
\* value its conversion to an integer or 1 when the conversion fails; resolving the
\* version never makes parse raise.
C1_VersionResolution ==
    VersionStepTaken =>
        /\ exc.cause \notin ConversionErrors
        /\ taxonomy.version = C1_ClaimedVersion

\* the decision of line 408 has been taken in this parse
LintDecided == pc = "schema" \/ Called("load_schema")

\* C2 (as stated): for a document that is a non-empty mapping, lint runs if and
\* only if the resolved version is not exactly 1.
C2_LintIffNotOne ==
    LintDecided => (Called("yamllint") <=> taxonomy.version # 1)

\* C2 (amended): lint runs if and only if the version was resolved and is greater
\* than 1; at every version of 1 or less no lint process is run and no lint
\* diagnostic is counted; where lint runs it runs once and before the schema is
\* loaded; a parse that raised while resolving the version ran no lint.
C2_LintIffAboveOne ==
    /\ LintDecided => (Called("yamllint") <=> taxonomy.version > 1)
    /\ (pc = "schema" /\ taxonomy.version <= 1) =>
           (out = <<>> /\ taxonomy.errors = 0 /\ taxonomy.warnings = 0)
    /\ \A i, j \in 1..Len(calls) :
           /\ (calls[i] = "yamllint" /\ calls[j] = "load_schema") => i < j
           /\ (calls[i] = "yamllint" /\ calls[j] = "yamllint") => i = j
    /\ ~LintDecided => ~Called("yamllint")

\* C2 witness: a document of version 0 went past the lint step without lint
C2_Witness ==
    pc = "schema" /\ taxonomy.version < 1 /\ ~Called("yamllint")

\* C3 (as stated): a qna.yaml whose top level is a sequence, of any length, gives
\* exactly one error, the not-an-object message, no warning, and neither lint nor
\* schema validation.
C3_SequenceIsOneError ==
    (pc = "done" /\ parsed.t = "list") =>
        /\ taxonomy.errors = 1
        /\ taxonomy.warnings = 0
        /\ Len(out) = 1 /\ out[1].sev = "error" /\ out[1].message = MsgNotObject
        /\ ~Called("yamllint") /\ ~Called("load_schema")

\* C4: a qna.yaml that decodes to an empty document gives exactly one warning,
\* "The file is empty", and no error; the entry keeps its initial body and version,
\* and neither lint nor schema validation runs.
C4_EmptyDocument ==
    (pc = "done" /\ parsed = PyNone) =>
        /\ taxonomy.warnings = 1
        /\ taxonomy.errors = 0
        /\ Len(out) = 1 /\ out[1].sev = "warning" /\ out[1].message = MsgEmpty
        /\ out[1].args = <<>>
        /\ taxonomy.parsed = PyMap({}, Absent)
        /\ taxonomy.version = 0
        /\ ~Called("yamllint") /\ ~Called("load_schema")

C4_Witness == pc = "done" /\ parsed = PyNone /\ Called("safe_load")

\* C5: a path that is no regular file gives, whatever its base name, exactly one
\* error, "does not exist or is not a file", no warning, and parse returns before
\* the name is checked and before anything is read, linted or validated.
C5_MissingFile ==
    (pc = "done" /\ ~file.is_file) =>
        /\ taxonomy.errors = 1
        /\ taxonomy.warnings = 0
        /\ Len(out) = 1 /\ out[1].sev = "error" /\ out[1].message = MsgNotAFile
        /\ out[1].args = <<JoinPath(file.path)>>
        /\ calls = <<"isfile">>
        /\ parsed = Unset

C5_Witness ==
    pc = "done" /\ ~file.is_file /\ BaseName(file.path) # "qna.yaml" /\ Len(out) = 1

\* C6: a regular file whose base name is not qna.yaml gives exactly one error, the
\* must-be-named message with that name, and no warning; the file is never opened
\* or decoded, and neither lint nor schema validation runs.
C6_WrongName ==
    (pc = "done" /\ file.is_file /\ BaseName(file.path) # "qna.yaml") =>
        /\ taxonomy.errors = 1
        /\ taxonomy.warnings = 0
        /\ Len(out) = 1 /\ out[1].sev = "error" /\ out[1].message = MsgBadName
        /\ out[1].args = <<BaseName(file.path)>>
        /\ ~Called("open") /\ ~Called("safe_load")
        /\ ~Called("yamllint") /\ ~Called("load_schema")
        /\ parsed = Unset

C6_Witness ==
    pc = "done" /\ file.is_file /\ BaseName(file.path) = "qna.yml" /\ Len(out) = 1

\* the matched findings of the last lint run, by the position of their line
Findings == {i \in 1..Len(lines) : Matches(lines[i])}

\* C7: of the lint lines that match the pattern, those of severity error, and all
\* of them under strict, are counted as errors and the others as warnings; under
\* strict the lint pass counts no warning. Diagnostics come out in line order.
C7_LintSeverity ==
    pc = "schema" =>
        /\ taxonomy.errors =
               Cardinality({i \in Findings :
                               parser.yamllint_strict \/ lines[i].severity = "error"})
        /\ taxonomy.warnings =
               Cardinality({i \in Findings :
                               ~parser.yamllint_strict /\ lines[i].severity # "error"})
        /\ parser.yamllint_strict => taxonomy.warnings = 0
        /\ Len(out) = Cardinality(Findings)
        /\ \A k \in 1..Len(out) :
              \E i \in Findings :
                  /\ Cardinality({j \in Findings : j <= i}) = k
                  /\ out[k].message = <<lines[i].message>>
                  /\ out[k].sev = "error" <=>
                         (parser.yamllint_strict \/ lines[i].severity = "error")

C7_Witness ==
    /\ pc = "schema"
    /\ parser.yamllint_strict
    /\ \E i \in Findings : lines[i].severity = "warning"
    /\ taxonomy.errors >= 1

\* C8: a minItems violation is reported as "Value must have at least <N> items"
\* with N the schema's minimum, not with the engine's message; any other violation
\* is reported with the last 200 characters of the engine's message, all of it when
\* it has 200 characters or fewer.
C8_ViolationMessage ==
    (pc = "iter" /\ out # <<>>) =>
        /\ Len(out) = 1
        /\ out[1].sev = "error"
        /\ IF violation.validator = "minItems"
           THEN /\ Interpolate(out[1].message, out[1].args) =
                       <<"Value must have at least ",
                         ToString(violation.validator_value), " items">>
                /\ out[1].message # violation.message
           ELSE LET m == violation.message
                    r == out[1].message
                IN  /\ out[1].args = <<>>
                    /\ Len(r) = (IF Len(m) <= 200 THEN Len(m) ELSE 200)
                    /\ \A j \in 1..Len(r) : r[j] = m[Len(m) - Len(r) + j]

C8_Witness ==
    /\ pc = "iter" /\ out # <<>>
    /\ violation.validator # "minItems"
    /\ Len(violation.message) > 200

\* C9: the format of an entry is never AUTO; when the entry is made AUTO becomes
\* GITHUB if and only if both GITHUB_ACTIONS and GITHUB_WORKFLOW are set, else
\* STANDARD, and any other format is taken as it is; afterwards the entry's format
\* does not change, whatever happens to the environment, and every diagnostic of
\* the entry is printed in that format.
C9_FormatFixed ==
    [][ /\ pc' # "idle" => taxonomy'.message_format \in {"STANDARD", "GITHUB", "LOGGING"}
        /\ (pc' = "isfile" /\ pc # "isfile") =>
               taxonomy'.message_format =
                   (IF parser.message_format # "AUTO" THEN parser.message_format
                    ELSE IF CIMarkers \subseteq env THEN "GITHUB" ELSE "STANDARD")
        /\ ~(pc' = "isfile" /\ pc # "isfile") =>
               taxonomy'.message_format = taxonomy.message_format
        /\ \A i \in 1..Len(out') : out'[i].fmt = taxonomy'.message_format
      ]_vars

C9_Witness ==
    /\ parser.message_format = "AUTO"
    /\ taxonomy.message_format = "GITHUB"
    /\ ~(CIMarkers \subseteq env)
    /\ out # <<>>

\* the schema file parse asked for at line 301 could not be loaded: its version is
\* not under the schema base, or reading and decoding it failed
SchemaUnloadable ==
    /\ Called("load_schema")
    /\ ~Called("retrieve")
    /\ \/ taxonomy.version \notin versions
       \/ ret.read /\ ret.obj = 0

\* C11: when the schema of the entry's version and schema name cannot be loaded,
\* schema validation reports exactly one error, which names the schema file, no
\* violation is iterated, yq is not called, and parse returns the entry; no
\* exception leaves parse.
C11_SchemaUnloadable ==
    SchemaUnloadable =>
        /\ pc = "done"
        /\ exc = NoExc
        /\ Len(out) = 1
        /\ out[1].sev = "error"
        /\ out[1].message = MsgNoSchema
        /\ out[1].args[1] = "v" \o ToString(taxonomy.version) \o "/" \o ret.key[3]
        /\ taxonomy.errors + taxonomy.warnings = Cardinality(Findings) + 1
        /\ violation.n = 0
        /\ ~Called("yq")

\* C11 witness: the version is installed and the file is there, but it cannot be
\* read or decoded
C11_Witness ==
    /\ SchemaUnloadable
    /\ taxonomy.version \in versions
    /\ pc = "done"
    /\ Len(out) = 1

\* C12 (as stated): when no v<digits> directory is under the schema base, the
\* constructor fails whatever its arguments are, and no parse is ever the first to
\* find the versions missing; when versions exist and schema_version is None, the
\* parser's version is the highest one.
C12_NoVersionsIsFatal ==
    /\ versions = {} => pc = "config_error"
    /\ versions = {} => ~Called("load_schema")
    /\ (versions # {} /\ ctor.schema_version = PyNone) =>
           /\ pc # "config_error"
           /\ parser.schema_version \in versions
           /\ \A n \in versions : n <= parser.schema_version

\* one of the four input errors: no such file, a wrong name, an empty document, a
\* top level that is not a mapping
InputError ==
    \/ ~file.is_file
    \/ BaseName(file.path) # "qna.yaml"
    \/ parsed.t \notin {"unset", "map"}
    \/ parsed.t = "map" /\ parsed.v.keys = {}

\* the current parse call is over
ParseOver == pc \in {"done", "raised"}

\* C13: parse ends either by returning the entry or by raising
\* TaxonomyReadingException; whatever was raised while reading, decoding, resolving
\* the version, linting, locating lines or validating leaves parse as that type
\* only, and a parse of an input error always returns.
C13_ReturnsOrRaisesOneType ==
    /\ exc.type \in {"none", "TaxonomyReadingException"}
    /\ pc = "raised" <=> exc.type = "TaxonomyReadingException"
    /\ pc = "raised" => exc.cause \notin {"none", "TaxonomyReadingException"}
    /\ pc = "done" => exc = NoExc
    /\ (ParseOver /\ InputError) => (pc = "done" /\ exc = NoExc)

\* C13 witness: yq could not be executed while a violation was being located, and
\* parse raised
C13_Witness ==
    /\ pc = "raised"
    /\ exc.cause = "PermissionError"
    /\ Called("yq")

\* the schema of the entry was loaded and the violations are being, or were, iterated
SchemaLoaded ==
    /\ Called("load_schema")
    /\ Called("retrieve") \/ ~(ret.read /\ ret.obj = 0)

\* C14 (as stated): for a document that reaches schema validation with a loadable
\* schema, every matched lint finding and every violation the validator yields is
\* one diagnostic, and no failure met while one of them is handled (of yq, or of a
\* cross-reference) ends the processing: the diagnostics counted are the matched
\* lint findings plus the violations yielded, and parse does not raise.
C14_EveryFindingReported ==
    SchemaLoaded =>
        /\ taxonomy.errors + taxonomy.warnings = Cardinality(Findings) + violation.n
        /\ pc # "raised"

\* the number of yq processes a parse call has started
YqCalls(c) == Cardinality({i \in 1..Len(c) : c[i] = "yq"})

\* C15: yq_available is true on a new parser; a step turns it off only when yq was
\* tried and the command was not found (not when yq exited with an error); no step
\* turns it on again; while it is off no yq process is started, in this parse or in
\* a later one; and a violation starts at most one yq process.
C15_LocatorBreaker ==
    [][ /\ (parses = 0 /\ pc = "idle") => parser.yq_available
        /\ ~parser.yq_available => ~parser'.yq_available
        /\ (parser.yq_available /\ ~parser'.yq_available) =>
               /\ violation'.n = violation.n + 1
               /\ violation'.yq = "FileNotFoundError"
        /\ ~parser.yq_available => YqCalls(calls') <= YqCalls(calls)
        /\ YqCalls(calls') > YqCalls(calls) =>
               /\ violation'.n = violation.n + 1
               /\ YqCalls(calls') = YqCalls(calls) + 1
      ]_vars

\* C15 witness: in a second parse on the parser, a violation was reported without
\* yq being started, because an earlier parse had found yq missing
C15_Witness ==
    /\ parses = 2
    /\ ~parser.yq_available
    /\ pc = "iter"
    /\ violation.n >= 1
    /\ ~Called("yq")

\* a violation has just been reported
ViolationReported == pc = "iter" /\ out # <<>>

\* yq ran, exited with 0 and printed a line number
YqSucceeded ==
    /\ violation.yq = "output"
    /\ IntOfStr(violation.text).exc = "none"
    /\ IntOfStr(violation.text).v >= 1

\* C16 (as stated): the line of a violation's diagnostic is the line number yq
\* printed when yq succeeded, and 1 on every failure of yq: not found, turned off,
\* exited with an error, printed nothing or printed no integer.
C16_LineOrOne ==
    ViolationReported =>
        IF YqSucceeded
        THEN /\ IntOfStr(Str(out[1].line)).exc = "none"
             /\ IntOfStr(Str(out[1].line)).v = IntOfStr(violation.text).v
        ELSE Str(out[1].line) = <<"1">>

\* the last _load_schema call was the one of line 301, for the entry's schema
EntrySchemaAsked == Called("load_schema") /\ ~Called("retrieve")

\* C17: the schema validated against is named by the first segment of the entry's
\* path when that segment is a configured taxonomy folder; otherwise it is
\* knowledge when the document has a `document` key and compositional_skills when
\* it has none; and it is loaded from the directory of the entry's version.
C17_SchemaSelection ==
    EntrySchemaAsked =>
        /\ ret.key[2] = taxonomy.version
        /\ ret.key[3] =
               (IF taxonomy.path[1] \in parser.taxonomy_folders THEN taxonomy.path[1]
                ELSE IF "document" \in parsed.v.keys THEN "knowledge"
                ELSE "compositional_skills") \o ".json"

\* C17 witness: a document without a `document` key under the knowledge folder
C17_Witness ==
    /\ EntrySchemaAsked
    /\ taxonomy.path[1] = "knowledge"
    /\ "document" \notin parsed.v.keys
    /\ ret.key[3] = "knowledge.json"

\* C18: the entry's path is the end of the absolute path from the last segment
\* that is a configured taxonomy folder, and the whole absolute path when no
\* segment is one, which is no diagnostic by itself; it is set before the file is
\* looked for, so it does not depend on the file being there.
C18_FolderAnchoring ==
    pc \notin {"idle", "config_error"} =>
        LET p == file.path
            r == taxonomy.path
            F == parser.taxonomy_folders
        IN  /\ Len(r) <= Len(p)
            /\ r = SubSeq(p, Len(p) - Len(r) + 1, Len(p))
            /\ IF \A i \in 1..Len(p) : p[i] \notin F
               THEN r = p
               ELSE r[1] \in F /\ \A j \in 2..Len(r) : r[j] \notin F
            /\ pc = "isfile" =>
                   (out = <<>> /\ taxonomy.errors = 0 /\ taxonomy.warnings = 0)

\* C18 witness: a file that is not there, under two nested taxonomy folders
C18_Witness ==
    /\ pc = "done"
    /\ ~file.is_file
    /\ Cardinality({i \in 1..Len(file.path) :
                       file.path[i] \in parser.taxonomy_folders}) = 2
    /\ Len(taxonomy.path) = 3

\* C19 (as stated): when threads ask one parser for the same schema file at once,
\* the file is read and decoded at most once, and every thread gets the same
\* document.
C19_LoadedAtMostOnce ==
    /\ \A k \in ThreadKeys : loads[k] <= 1
    /\ \A t, u \in 1..NumThreads :
           (/\ threads[t].pc = "returned"
            /\ threads[u].pc = "returned"
            /\ threads[t].key = threads[u].key) => threads[t].obj = threads[u].obj

\* the text C20 says every format writes from the position on
C20_Body(d) ==
    <<Join(Str(d.line)), ":", Join(Str(d.col))>>
    \o (IF d.yaml_path # <<>> THEN <<" [", Join(d.yaml_path), "] ">> ELSE <<" ">>)
    \o (IF d.args # <<>> THEN Format(d.message, d.args).text ELSE d.message)

\* C20 (as stated): every diagnostic is written alike in the three formats from
\* the position on, `<line>:<col> [<path>] <message>`, the message interpolated
\* with its arguments once and the bracketed path left out when it is empty; a
\* message without arguments is written as it is in the LOGGING format too.
C20_SameTextInEveryFormat ==
    \A i \in 1..Len(out) :
        \A fmt \in {"STANDARD", "GITHUB", "LOGGING"} :
            LET r == Render(fmt, out[i], JoinPath(file.path))
            IN  /\ r.exc = "none"
                /\ r.body = C20_Body(out[i])
====
